---- MODULE Spec2Model ----
(***************************************************************************)
(* The GSP_L2 teaching notebooks as a state machine.                       *)
(*                                                                         *)
(* A kernel session runs one of four notebooks, cell by cell, in the       *)
(* written order:                                                          *)
(*   "io"      src/unnamed/part_000, lines 1-357   (Vector Data I/O)       *)
(*   "paths"   src/unnamed/part_000, lines 359-648 (Managing File Paths)   *)
(*   "landuse" src/L2_3_Geopandas_processing.ipynb, lines 1-561            *)
(*   "crs"     src/L2_3_Geopandas_processing.ipynb, lines 563-894          *)
(* The state is the kernel's namespace (one variable per Python name), the *)
(* files written so far and the position in the notebook.  A cell that     *)
(* raises stops at the failing statement; the next cell can still be run.  *)
(***************************************************************************)
EXTENDS Integers, Sequences, FiniteSets, TLC

VARIABLES
    notebook,           \* the notebook this kernel session runs
    pc,                 \* the cell that runs next, or "done"
    stmt,               \* position inside a cell that runs statement by statement
    defined,            \* the Python names bound so far
    errors,             \* <<cell, exception>> for every cell that raised
    files,              \* path |-> content of every file written in the session
    opened,             \* the paths geopandas.read_file was asked to open, in order
    cwd,                \* os.getcwd() of the kernel
    notebook_dir,       \* the directory that holds the notebook file
    NOTEBOOK_PATH,
    DATA_DIRECTORY,
    FILE_DIR,
    gdf,                \* the NUTS regions GeoDataFrame
    response,           \* the WFS response body
    gml,                \* the file cykelpump_punkt.gml: [exists, open, content]
    data,               \* the bike pump GeoDataFrame of the WFS cell
    wfs_log,            \* the statements of the WFS cell completed so far
    data_set,           \* the land use GeoDataFrame
    water_bodies,
    grouped_data,       \* the GroupBy object: the grouped frame and the key column
    groups,             \* the value of grouped_data.groups
    loop_keys,          \* the group keys the fan-out loop has still to visit
    area_information,
    gdf_epsg_4326,
    calls,              \* <<cell, statement>> for every library call attempted, in order
    stdout,             \* cell |-> the lines the cell has printed
    iterrows,           \* the (label, row) pairs a row loop has still to visit
    crs,                \* the pyproj CRS object bound to the name crs
    axis1,              \* the left sub plot: what was drawn on it, and its title
    axis2               \* the right sub plot

commonVars == <<notebook, pc, stmt, defined, errors, files, opened>>
pathVars == <<cwd, notebook_dir, NOTEBOOK_PATH, DATA_DIRECTORY, FILE_DIR>>
ioVars == <<response, gml, data, wfs_log>>
luVars == <<data_set, water_bodies, grouped_data, groups, loop_keys, area_information>>
crsVars == <<gdf, gdf_epsg_4326>>
pyVars == <<stdout, iterrows, crs, axis1, axis2>>
vars == <<commonVars, pathVars, ioVars, luVars, crsVars, calls, pyVars>>

(***************************************************************************)
(* Bounds of the model.                                                    *)
(***************************************************************************)
MaxFeatures == 2        \* features in the WFS layer
MaxRows == 3            \* rows of the land use data set
MaxRegions == 2         \* rows of the NUTS data set
MaxLongRows == 6        \* rows of a land use data set of one class

NoCRS == "None"

\* The sequences over S of length 0..n.
SeqUpTo(S, n) == UNION {[1..k -> S] : k \in 0..n}

(***************************************************************************)
(* The inputs: what the external sources (a file, a URL, the WFS layer)     *)
(* can hold.  A source is read when the call that reads it runs.           *)
(***************************************************************************)
Names == {"a", "b"}
Points == {<<1, 2>>, <<1, 2, 3>>}

\* The features of the layer od_gis:Cykelpump_Punkt
Features == {[name |-> n, geometry |-> g] : n \in Names, g \in Points}
Layers == {[srs |-> c, features |-> f] :
              c \in {NoCRS, "EPSG:3011", "EPSG:4326"},
              f \in SeqUpTo(Features, MaxFeatures)}

\* The rows of NUTS_RG_60M_2021_3035.shp: the file has a column named FID
NutsRows == {[NUTS_ID |-> "SE", FID |-> "SE", geometry |-> <<1, 2>>],
             [NUTS_ID |-> "FI", FID |-> "FI", geometry |-> <<2, 1>>]}
NutsLayers == {[srs |-> "EPSG:3035", features |-> f] :
                  f \in SeqUpTo(NutsRows, MaxRegions)}

\* The rows of Landusepolygon.shp: a land use code, a category (NULL when the
\* attribute is empty), a column the notebook drops, and a polygon, here a
\* w x h rectangle.
Null == "null"
Categories == {"Skog", "Vattenyta", Null}
KkodOf(category) ==
    CASE category = "Vattenyta" -> 901
      [] category = "Skog" -> 302
      [] OTHER -> 0
Polygons == {[w |-> 1, h |-> 1], [w |-> 1, h |-> 2]}
LandUseRows == {[KKOD |-> KkodOf(c), KATEGORI |-> c, OBJEKT |-> "x", geometry |-> g] :
                   c \in Categories, g \in Polygons}
\* Longer files, of forest polygons only.
SkogRows == {r \in LandUseRows : r.KATEGORI = "Skog"}
LongFeatures == UNION {[1..k -> SkogRows] : k \in (MaxRows + 1)..MaxLongRows}

LandUseLayers == {[srs |-> "EPSG:3006", features |-> f] :
                     f \in SeqUpTo(LandUseRows, MaxRows) \cup LongFeatures}

(***************************************************************************)
(* pathlib / os.path.  A path is [abs, parts]: parts are its components,   *)
(* abs tells whether it starts at the root.                                *)
(***************************************************************************)
\* pathlib.Path(): the relative path "."
Path0 == [abs |-> FALSE, parts |-> <<>>]

\* pathlib.Path(s) for an absolute directory given by its components
PathOf(parts) == [abs |-> TRUE, parts |-> parts]

\* p / name
Join(p, name) == [abs |-> p.abs, parts |-> Append(p.parts, name)]

\* The directories of the file system (canonical: no symbolic link in them).
HomeDir == <<"home", "user">>
NbDir == <<"home", "user", "GSP_L2">>
Directories == {<<>>, <<"home">>, HomeDir, NbDir, Append(NbDir, "data"), <<"tmp">>}

\* Path.resolve(): a relative path is taken from the working directory; the
\* working directory the kernel reports is canonical, so no link is left to
\* follow and no ".." to fold.
Resolve(p, wd) == IF p.abs THEN p ELSE [abs |-> TRUE, parts |-> wd \o p.parts]

\* os.path.abspath(name): normpath(join(os.getcwd(), name)), as components
os_path_abspath(name, wd) == wd \o name

\* (faulty variant) the directory part is not taken
os_path_dirname_Whole(parts) == parts

\* os.path.dirname(path): everything before the last component
os_path_dirname(parts) ==
    IF parts = <<>> THEN <<>> ELSE SubSeq(parts, 1, Len(parts) - 1)

(***************************************************************************)
(* Running cells.                                                          *)
(***************************************************************************)
IoCells == <<"data_directory", "read_nuts", "write_gpkg_1", "rename_fid",
             "write_gpkg_2", "write_gpkg_3", "write_geojson", "wfs">>

PathCells == <<"data_directory", "read_uga", "alternative", "read_uga_again">>

LuCells == <<"data_directory", "read_landuse", "select_columns",
             "rename_columns", "iterrows_geometry", "iterrows_area", "area_column", "filter_water", "write_water",
             "groupby", "groups", "get_group", "fan_out", "area_information",
             "to_csv">>

CrsCells == <<"read_nuts", "to_crs", "plot", "pyproj", "manual_crs", "crs_name",
              "crs_bounds">>

Cells(nb) ==
    CASE nb = "io" -> IoCells
      [] nb = "paths" -> PathCells
      [] nb = "landuse" -> LuCells
      [] nb = "crs" -> CrsCells

IndexOf(s, x) == CHOOSE i \in 1..Len(s) : s[i] = x

\* The cell below cell c in notebook nb.
NextCell(nb, c) ==
    LET s == Cells(nb)
        i == IndexOf(s, c)
    IN  IF i = Len(s) THEN "done" ELSE s[i + 1]

\* Cell c of the running notebook lies above the cell that runs next.
Past(c) == pc = "done" \/ IndexOf(Cells(notebook), c) < IndexOf(Cells(notebook), pc)

\* Cell c has run to its end without raising.
Succeeded(c) == Past(c) /\ \A e \in errors : e[1] # c

\* The statement `call` of cell c is attempted: the library is called.
Attempt(c, call) == calls' = Append(calls, <<c, call>>)

\* The Python names a cell reads before it binds anything.
Needs(c) ==
    CASE c \in {"write_gpkg_1", "rename_fid", "write_gpkg_2"} -> {"gdf"}
      [] c \in {"read_uga", "read_uga_again", "read_landuse"} -> {"DATA_DIRECTORY"}
      [] c \in {"select_columns", "rename_columns", "iterrows_geometry",
                "iterrows_area", "area_column", "filter_water", "groupby",
                "area_information"} -> {"data_set"}
      [] c = "write_water" -> {"water_bodies", "DATA_DIRECTORY"}
      [] c \in {"groups", "get_group"} -> {"grouped_data"}
      [] c = "fan_out" -> {"data_set", "DATA_DIRECTORY"}
      [] c = "to_csv" -> {"area_information"}
      [] c \in {"to_crs", "pyproj"} -> {"gdf"}
      [] c = "plot" -> {"gdf", "gdf_epsg_4326"}
      [] c \in {"crs_name", "crs_bounds"} -> {"crs"}
      [] c \in {"write_gpkg_3", "write_geojson"} -> {"gdf", "DATA_DIRECTORY"}
      [] OTHER -> {}

\* Cell c ran to its end.
Finish(c) ==
    /\ pc' = NextCell(notebook, c)
    /\ stmt' = 1
    /\ errors' = errors

\* (faulty variant) the failing statement is caught and tried again
Raise_Retry(c, exc) ==
    /\ pc' = pc
    /\ stmt' = stmt
    /\ errors' = errors \cup {<<c, exc>>}

\* Cell c stopped at a statement that raised exc; nothing after it ran.
Raise(c, exc) ==
    /\ pc' = NextCell(notebook, c)
    /\ stmt' = 1
    /\ errors' = errors \cup {<<c, exc>>}

\* A cell that reads a name no earlier cell has bound.
NameErrorCell ==
    /\ pc # "done"
    /\ ~(Needs(pc) \subseteq defined)
    /\ Raise(pc, "NameError")
    /\ UNCHANGED <<notebook, calls, pyVars,
                   defined, files, opened, pathVars, ioVars, luVars,
                   crsVars>>

(***************************************************************************)
(* GeoDataFrames.  A frame is [crs, index, rows]: index holds the row      *)
(* labels, rows the rows in the same order, each a function from column    *)
(* names to values.  A point geometry is its coordinate tuple, <<x, y>> or *)
(* <<x, y, z>>.                                                            *)
(***************************************************************************)
\* The default index of a frame read from a file: 0 .. n-1.
RangeIndex(n) == [i \in 1..n |-> i - 1]

\* geopandas.read_file on a layer [srs, features]
read_file(layer) ==
    [crs |-> layer.srs,
     index |-> RangeIndex(Len(layer.features)),
     rows |-> layer.features]

\* GeoDataFrame.rename(columns = {old: new}) on one row
RenameRow(row, old, new) ==
    IF old \notin DOMAIN row THEN row
    ELSE [c \in (DOMAIN row \ {old}) \cup {new} |->
            IF c = new THEN row[old] ELSE row[c]]

\* GeoDataFrame.rename(columns = {old: new}): a new frame
rename(frame, old, new) ==
    [frame EXCEPT !.rows = [i \in DOMAIN @ |-> RenameRow(@[i], old, new)]]

\* GeoDataFrame.to_file(path, driver): the file the driver leaves on disk
\* (the unnamed default index is not written)
WrittenFile(frame, driver) ==
    [driver |-> driver, crs |-> frame.crs, rows |-> frame.rows]

\* files with path now holding content
Store(fs, path, content) ==
    [p \in DOMAIN fs \cup {path} |-> IF p = path THEN content ELSE fs[p]]

\* print(line) in cell c: the line is added to what the cell has printed
Printed(out, c, lines) ==
    [k \in DOMAIN out \cup {c} |->
        IF k = c THEN (IF c \in DOMAIN out THEN out[c] ELSE <<>>) \o lines
        ELSE out[k]]

(***************************************************************************)
(* First cell of the "io", "paths" and "landuse" notebooks.                *)
(***************************************************************************)
DataDirectoryCell ==
    /\ pc = "data_directory"
    /\ NOTEBOOK_PATH' = Resolve(Path0, cwd)
    /\ DATA_DIRECTORY' = Join(NOTEBOOK_PATH', "data")
    /\ defined' = defined \cup {"NOTEBOOK_PATH", "DATA_DIRECTORY"}
    /\ Finish("data_directory")
    /\ UNCHANGED <<notebook, calls, pyVars,
                   files, opened, cwd, notebook_dir, FILE_DIR, ioVars,
                   luVars, crsVars>>

(***************************************************************************)
(* The "io" notebook: the NUTS regions, written to GeoPackage and GeoJSON. *)
(***************************************************************************)
\* gdf = geopandas.read_file(url); the download can fail
ReadNuts ==
    /\ pc = "read_nuts"
    /\ Attempt("read_nuts", "read_file")
    /\ \/ /\ \E layer \in NutsLayers : gdf' = read_file(layer)
          /\ defined' = defined \cup {"gdf"}
          /\ Finish("read_nuts")
       \/ /\ UNCHANGED <<gdf, defined>>
          /\ Raise("read_nuts", "URLError")
    /\ UNCHANGED <<notebook, pyVars,
                   files, opened, pathVars, ioVars, luVars,
                   gdf_epsg_4326>>

\* gdf.to_file(path, driver): the driver accepts the frame and the file is
\* written, or it refuses it and the call raises.  The driver's verdict is
\* taken outside the notebook.
ToFile(c, frame, path, driver) ==
    /\ pc = c
    /\ Needs(c) \subseteq defined
    /\ Attempt(c, "to_file")
    /\ \/ /\ files' = Store(files, path, WrittenFile(frame, driver))
          /\ Finish(c)
       \/ /\ UNCHANGED files
          /\ Raise(c, "DriverError")
    /\ UNCHANGED <<notebook, pyVars,
                   defined, opened, pathVars, ioVars, luVars, crsVars>>

WriteGpkg1 == ToFile("write_gpkg_1", gdf, cwd \o <<"nuts_1.gpkg">>, "GPKG")

RenameFid ==
    /\ pc = "rename_fid"
    /\ Needs(pc) \subseteq defined
    /\ gdf' = rename(gdf, "FID", "FID1")
    /\ Finish("rename_fid")
    /\ UNCHANGED <<notebook, calls, pyVars,
                   defined, files, opened, pathVars, ioVars, luVars,
                   gdf_epsg_4326>>

WriteGpkg2 == ToFile("write_gpkg_2", gdf, cwd \o <<"nuts_1.gpkg">>, "GPKG")

WriteGpkg3 ==
    ToFile("write_gpkg_3", gdf, Join(DATA_DIRECTORY, "nuts_1.gpkg").parts, "GPKG")

WriteGeoJson ==
    ToFile("write_geojson", gdf, Join(DATA_DIRECTORY, "nuts_1.gjson").parts,
           "GeoJSON")

(***************************************************************************)
(* The "paths" notebook: two ways to build DATA_DIRECTORY, each followed   *)
(* by a read of the Uganda shapefile.                                      *)
(***************************************************************************)
UgaName == "UGA_adm1_2011.shp"

\* What data/UGA_adm1_2011.shp, the file next to the notebook, holds.
UgaLayer == [srs |-> "EPSG:4326",
             features |-> <<[name |-> "a", geometry |-> <<1, 2>>]>>]

\* data_set = geopandas.read_file(DATA_DIRECTORY / "UGA_adm1_2011.shp"): the
\* file is there when the path is the data folder next to the notebook
ReadUga(c) ==
    /\ pc = c
    /\ Needs(c) \subseteq defined
    /\ Attempt(c, "read_file")
    /\ LET path == Join(DATA_DIRECTORY, UgaName).parts
       IN  /\ opened' = Append(opened, path)
           /\ IF path = notebook_dir \o <<"data", UgaName>>
              THEN /\ data_set' = read_file(UgaLayer)
                   /\ defined' = defined \cup {"data_set"}
                   /\ Finish(c)
              ELSE /\ UNCHANGED <<data_set, defined>>
                   /\ Raise(c, "DriverError")
    /\ UNCHANGED <<notebook, pyVars,
                   files, pathVars, ioVars, water_bodies,
                   grouped_data, groups, loop_keys, area_information, crsVars>>

ReadUgaFirst == ReadUga("read_uga")

\* FILE_DIR = os.path.dirname(os.path.abspath("UGA_adm1_2011.shp"))
\* NOTEBOOK_PATH = pathlib.Path(FILE_DIR).resolve()
\* DATA_DIRECTORY = NOTEBOOK_PATH / "data"
AlternativeCell ==
    /\ pc = "alternative"
    /\ FILE_DIR' = os_path_dirname(os_path_abspath(<<UgaName>>, cwd))
    /\ NOTEBOOK_PATH' = Resolve(PathOf(FILE_DIR'), cwd)
    /\ DATA_DIRECTORY' = Join(NOTEBOOK_PATH', "data")
    /\ defined' = defined \cup {"FILE_DIR", "NOTEBOOK_PATH", "DATA_DIRECTORY"}
    /\ Finish("alternative")
    /\ UNCHANGED <<notebook, calls, pyVars,
                   files, opened, cwd, notebook_dir, ioVars, luVars,
                   crsVars>>

ReadUgaAgain == ReadUga("read_uga_again")

(***************************************************************************)
(* pandas: selecting, filtering and grouping.                              *)
(***************************************************************************)
\* frame[columns]: the rows cut down to the columns
SelectColumns(frame, columns) ==
    [frame EXCEPT !.rows = [i \in DOMAIN @ |-> [c \in columns |-> @[i][c]]]]

\* The positions from i on where the boolean mask is True, in ascending order.
RECURSIVE PositionsFrom(_, _)
PositionsFrom(mask, i) ==
    IF i > Len(mask) THEN <<>>
    ELSE IF mask[i] THEN <<i>> \o PositionsFrom(mask, i + 1)
    ELSE PositionsFrom(mask, i + 1)

\* series == value: the boolean mask of a comparison
EqualsMask(values, value) == [i \in DOMAIN values |-> values[i] = value]

\* (faulty variant) the rows taken are numbered anew
Take_ResetIndex(frame, positions) ==
    [frame EXCEPT
        !.index = RangeIndex(Len(positions)),
        !.rows = [j \in 1..Len(positions) |-> frame.rows[positions[j]]]]

\* frame.take(positions), frame[mask]: the rows at the positions, with their
\* labels
Take(frame, positions) ==
    [frame EXCEPT
        !.index = [j \in 1..Len(positions) |-> frame.index[positions[j]]],
        !.rows = [j \in 1..Len(positions) |-> frame.rows[positions[j]]]]

\* series.unique(): the values in the order they first appear, None included
RECURSIVE UniqueFrom(_, _, _)
UniqueFrom(values, i, seen) ==
    IF i > Len(values) THEN seen
    ELSE IF \E j \in DOMAIN seen : seen[j] = values[i]
         THEN UniqueFrom(values, i + 1, seen)
         ELSE UniqueFrom(values, i + 1, Append(seen, values[i]))

unique(values) == UniqueFrom(values, 1, <<>>)

\* The column `by` of a frame, as a sequence.
Column(frame, by) == [i \in DOMAIN frame.rows |-> frame.rows[i][by]]

\* (faulty variant) rows without a key are grouped under the missing key
GroupPositionsFrom_KeepNull(values, i, acc) ==
    IF i > Len(values) THEN acc
    ELSE [k \in DOMAIN acc \cup {values[j] : j \in i..Len(values)} |->
            (IF k \in DOMAIN acc THEN acc[k] ELSE <<>>)
            \o PositionsFrom(EqualsMask(values, k), i)]

\* frame.groupby(by), dropna=True: one pass over the key column; a row whose
\* key is missing joins no group, every other row joins the group of its key.
\* The result maps each key to the positions of its rows.
RECURSIVE GroupPositionsFrom(_, _, _)
GroupPositionsFrom(values, i, acc) ==
    IF i > Len(values) THEN acc
    ELSE IF values[i] = Null THEN GroupPositionsFrom(values, i + 1, acc)
    ELSE GroupPositionsFrom(values, i + 1,
            [k \in DOMAIN acc \cup {values[i]} |->
                IF k = values[i]
                THEN (IF k \in DOMAIN acc THEN Append(acc[k], i) ELSE <<i>>)
                ELSE acc[k]])

\* The GroupBy object of frame.groupby(by): it is evaluated when it is used.
groupby(frame, by) == [obj |-> frame, by |-> by]

GroupPositions(gb) == GroupPositionsFrom(Column(gb.obj, gb.by), 1, <<>>)

\* The order Python sorts the category names in.
SortOrder == <<"Skog", "Vattenyta", "null">>

\* The group keys in sorted order (sort=True), as iterating the GroupBy gives.
GroupKeys(gb) == SelectSeq(SortOrder, LAMBDA k : k \in DOMAIN GroupPositions(gb))

\* GroupBy.groups: key |-> the labels of the rows of the group
Groups(gb) ==
    LET pos == GroupPositions(gb)
    IN  [k \in DOMAIN pos |-> [j \in 1..Len(pos[k]) |-> gb.obj.index[pos[k][j]]]]

\* GroupBy.get_group(key), for a key of the grouping
get_group(gb, key) == Take(gb.obj, GroupPositions(gb)[key])

\* shapely: polygon.area
Area(polygon) == polygon.w * polygon.h

RECURSIVE SumFrom(_, _)
SumFrom(values, i) ==
    IF i > Len(values) THEN 0 ELSE values[i] + SumFrom(values, i + 1)

\* (faulty variant) every group is given the total of the whole column
GroupSum_Total(gb, column) ==
    [k \in DOMAIN GroupPositions(gb) |-> SumFrom(Column(gb.obj, column), 1)]

\* GroupBy.<column>.sum(): key |-> the sum of the column over the group
GroupSum(gb, column) ==
    LET pos == GroupPositions(gb)
    IN  [k \in DOMAIN pos |->
            SumFrom([j \in 1..Len(pos[k]) |-> gb.obj.rows[pos[k][j]][column]], 1)]

(***************************************************************************)
(* The "landuse" notebook.                                                 *)
(***************************************************************************)
\* data_set = geopandas.read_file(DATA_DIRECTORY / "Landusepolygon.shp")
ReadLandUse ==
    /\ pc = "read_landuse"
    /\ Needs(pc) \subseteq defined
    /\ Attempt("read_landuse", "read_file")
    /\ opened' = Append(opened, Join(DATA_DIRECTORY, "Landusepolygon.shp").parts)
    /\ \E layer \in LandUseLayers : data_set' = read_file(layer)
    /\ defined' = defined \cup {"data_set"}
    /\ Finish("read_landuse")
    /\ UNCHANGED <<notebook, pyVars,
                   files, pathVars, ioVars, water_bodies,
                   grouped_data, groups, loop_keys, area_information, crsVars>>

\* A cell that only rebinds data_set.
DataSetCell(c, frame) ==
    /\ pc = c
    /\ Needs(c) \subseteq defined
    /\ data_set' = frame
    /\ Finish(c)
    /\ UNCHANGED <<notebook, calls, pyVars,
                   defined, files, opened, pathVars, ioVars,
                   water_bodies, grouped_data, groups, loop_keys,
                   area_information, crsVars>>

\* data_set = data_set[['KKOD', 'KATEGORI', "geometry"]]
SelectColumnsCell ==
    DataSetCell("select_columns",
                SelectColumns(data_set, {"KKOD", "KATEGORI", "geometry"}))

\* data_set = data_set.rename(columns={"KKOD": "ID_CLASS", "KATEGORI": "CLASS_NAME"})
RenameColumnsCell ==
    DataSetCell("rename_columns",
                rename(rename(data_set, "KKOD", "ID_CLASS"), "KATEGORI", "CLASS_NAME"))

\* frame[:n]: the first n rows, all of them when the frame has fewer
SliceTo(frame, n) ==
    Take(frame, [j \in 1..(IF Len(frame.rows) < n THEN Len(frame.rows) ELSE n) |-> j])

\* frame.iterrows(): the pairs (label, row) in the order of the frame
Pairs(frame) == [j \in DOMAIN frame.rows |-> <<frame.index[j], frame.rows[j]>>]

\* GeoDataFrame.area: the Series of the areas of the geometries, under the
\* index of the frame
GeoDataFrame_area(frame) ==
    [index |-> frame.index,
     values |-> [j \in DOMAIN frame.rows |-> Area(frame.rows[j].geometry)]]

\* (faulty variant) the key is taken as a position counted from the end
Series_getitem_FromEnd(series, key) == series.values[Len(series.values) - key]

\* series[key] under an integer index: the value whose label is key
Series_getitem(series, key) ==
    series.values[CHOOSE j \in DOMAIN series.index : series.index[j] = key]

\* f"{value:0.1f}" for an area that is a whole number of square metres
Format_01f(value) == ToString(value) \o ".0"

\* f"The polygon in row {index} has a surface area of {polygon_area:0.1f} m2."
AreaLine(index, polygon_area) ==
    "The polygon in row " \o ToString(index) \o " has a surface area of "
        \o Format_01f(polygon_area) \o " m2."

\* for index, row in data_set[:5].iterrows(): the loop of cell c starts
RowLoopStart(c) ==
    /\ pc = c
    /\ stmt = 1
    /\ Needs(c) \subseteq defined
    /\ iterrows' = Pairs(SliceTo(data_set, 5))
    /\ stmt' = 2
    /\ UNCHANGED <<notebook, calls, stdout, crs, axis1, axis2, pc, defined,
                   errors, files, opened, pathVars, ioVars, luVars, crsVars>>

\* The body of the loop of cell c prints the line for the next row.
RowLoopBody(c, polygon_area) ==
    /\ pc = c
    /\ stmt = 2
    /\ iterrows # <<>>
    /\ stdout' = Printed(stdout, c, <<AreaLine(Head(iterrows)[1], polygon_area)>>)
    /\ iterrows' = Tail(iterrows)
    /\ UNCHANGED <<notebook, calls, crs, axis1, axis2, pc, stmt, defined,
                   errors, files, opened, pathVars, ioVars, luVars, crsVars>>

\* The loop of cell c has visited every row of the slice.
RowLoopEnd(c) ==
    /\ pc = c
    /\ stmt = 2
    /\ iterrows = <<>>
    /\ Finish(c)
    /\ UNCHANGED <<notebook, calls, pyVars, defined, files, opened, pathVars,
                   ioVars, luVars, crsVars>>

IterGeometryStart == RowLoopStart("iterrows_geometry")

\* polygon_area = row["geometry"].area
IterGeometryBody ==
    /\ iterrows # <<>>
    /\ RowLoopBody("iterrows_geometry", Area(Head(iterrows)[2].geometry))

IterGeometryEnd == RowLoopEnd("iterrows_geometry")

IterAreaStart == RowLoopStart("iterrows_area")

\* polygon_area = data_set.area[i]
IterAreaBody ==
    /\ iterrows # <<>>
    /\ RowLoopBody("iterrows_area",
                   Series_getitem(GeoDataFrame_area(data_set), Head(iterrows)[1]))

IterAreaEnd == RowLoopEnd("iterrows_area")

\* data_set["area"] = data_set.area
AreaColumnCell ==
    DataSetCell("area_column",
                [data_set EXCEPT !.rows =
                    [i \in DOMAIN @ |->
                        [c \in DOMAIN @[i] \cup {"area"} |->
                            IF c = "area" THEN Area(@[i].geometry) ELSE @[i][c]]]])

\* water_bodies = data_set[data_set.ID_CLASS == 901]
FilterWaterCell ==
    /\ pc = "filter_water"
    /\ Needs(pc) \subseteq defined
    /\ water_bodies' =
          Take(data_set,
               PositionsFrom(EqualsMask(Column(data_set, "ID_CLASS"), 901), 1))
    /\ defined' = defined \cup {"water_bodies"}
    /\ Finish("filter_water")
    /\ UNCHANGED <<notebook, calls, pyVars,
                   files, opened, pathVars, ioVars, data_set,
                   grouped_data, groups, loop_keys, area_information, crsVars>>

\* water_bodies.to_file(DATA_DIRECTORY / "water_bodies.shp")
WriteWaterCell ==
    ToFile("write_water", water_bodies,
           Join(DATA_DIRECTORY, "water_bodies.shp").parts, "ESRI Shapefile")

\* grouped_data = data_set.groupby("CLASS_NAME")
GroupByCell ==
    /\ pc = "groupby"
    /\ Needs(pc) \subseteq defined
    /\ grouped_data' = groupby(data_set, "CLASS_NAME")
    /\ defined' = defined \cup {"grouped_data"}
    /\ Finish("groupby")
    /\ UNCHANGED <<notebook, calls, pyVars,
                   files, opened, pathVars, ioVars, data_set,
                   water_bodies, groups, loop_keys, area_information, crsVars>>

\* grouped_data.groups
GroupsCell ==
    /\ pc = "groups"
    /\ Needs(pc) \subseteq defined
    /\ groups' = Groups(grouped_data)
    /\ Finish("groups")
    /\ UNCHANGED <<notebook, calls, pyVars,
                   defined, files, opened, pathVars, ioVars, data_set,
                   water_bodies, grouped_data, loop_keys, area_information,
                   crsVars>>

\* water_bodies = grouped_data.get_group('Vattenyta'): KeyError without the key
GetGroupCell ==
    /\ pc = "get_group"
    /\ Needs(pc) \subseteq defined
    /\ IF "Vattenyta" \in DOMAIN GroupPositions(grouped_data)
       THEN /\ water_bodies' = get_group(grouped_data, "Vattenyta")
            /\ defined' = defined \cup {"water_bodies"}
            /\ Finish("get_group")
       ELSE /\ UNCHANGED <<water_bodies, defined>>
            /\ Raise("get_group", "KeyError")
    /\ UNCHANGED <<notebook, calls, pyVars,
                   files, opened, pathVars, ioVars, data_set,
                   grouped_data, groups, loop_keys, area_information, crsVars>>

\* (faulty variant) the key is left out of the file name
LuFileName_NoKey(key) == "LU_" \o ".shp"

\* f"LU_{key}.shp"
LuFileName(key) == "LU_" \o key \o ".shp"

\* for key, group in data_set.groupby("CLASS_NAME"): the loop starts
FanOutStart ==
    /\ pc = "fan_out"
    /\ stmt = 1
    /\ Needs(pc) \subseteq defined
    /\ loop_keys' = GroupKeys(groupby(data_set, "CLASS_NAME"))
    /\ stmt' = 2
    /\ UNCHANGED <<notebook, calls, pyVars,
                   pc, defined, errors, files, opened, pathVars,
                   ioVars, data_set, water_bodies, grouped_data, groups,
                   area_information, crsVars>>

\* group.to_file(DATA_DIRECTORY / f"LU_{key}.shp") for the next key; when the
\* write raises, the loop and the cell end there
FanOutWrite ==
    /\ pc = "fan_out"
    /\ stmt = 2
    /\ loop_keys # <<>>
    /\ Attempt("fan_out", LuFileName(Head(loop_keys)))
    /\ LET key == Head(loop_keys)
           group == get_group(groupby(data_set, "CLASS_NAME"), key)
       IN  \/ /\ files' = Store(files, Join(DATA_DIRECTORY, LuFileName(key)).parts,
                                WrittenFile(group, "ESRI Shapefile"))
              /\ loop_keys' = Tail(loop_keys)
              /\ UNCHANGED <<pc, stmt, errors>>
           \/ /\ Raise("fan_out", "DriverError")
              /\ UNCHANGED <<files, loop_keys>>
    /\ UNCHANGED <<notebook, pyVars,
                   defined, opened, pathVars, ioVars, data_set,
                   water_bodies, grouped_data, groups, area_information, crsVars>>

\* the loop has visited every group
FanOutEnd ==
    /\ pc = "fan_out"
    /\ stmt = 2
    /\ loop_keys = <<>>
    /\ Finish("fan_out")
    /\ UNCHANGED <<notebook, calls, pyVars,
                   defined, files, opened, pathVars, ioVars, luVars,
                   crsVars>>

\* area_information = data_set.groupby("CLASS_NAME").area.sum()
AreaInformationCell ==
    /\ pc = "area_information"
    /\ Needs(pc) \subseteq defined
    /\ area_information' = GroupSum(groupby(data_set, "CLASS_NAME"), "area")
    /\ defined' = defined \cup {"area_information"}
    /\ Finish("area_information")
    /\ UNCHANGED <<notebook, calls, pyVars,
                   files, opened, pathVars, ioVars, data_set,
                   water_bodies, grouped_data, groups, loop_keys, crsVars>>

\* area_information.to_csv("data/area_by_LU_class.csv")
ToCsvCell ==
    /\ pc = "to_csv"
    /\ Needs(pc) \subseteq defined
    /\ Attempt("to_csv", "to_csv")
    /\ \/ /\ files' = Store(files, cwd \o <<"data", "area_by_LU_class.csv">>,
                            [driver |-> "CSV", crs |-> NoCRS,
                             rows |-> area_information])
          /\ Finish("to_csv")
       \/ /\ UNCHANGED files
          /\ Raise("to_csv", "OSError")
    /\ UNCHANGED <<notebook, pyVars,
                   defined, opened, pathVars, ioVars, luVars, crsVars>>

(***************************************************************************)
(* The "crs" notebook: the NUTS regions, reprojected.                      *)
(***************************************************************************)
\* pyproj: a coordinate tuple taken from one CRS to another.  The projection
\* is abstracted to a shift of every coordinate, which is not the identity
\* between two different CRSs.
Transform(from, to, geom) ==
    IF from = to THEN geom ELSE [i \in DOMAIN geom |-> geom[i] + 10]

\* The frame with its geometries in the CRS `to`.
Reprojected(frame, to) ==
    [frame EXCEPT
        !.crs = to,
        !.rows = [i \in DOMAIN @ |->
                    [@[i] EXCEPT !.geometry = Transform(frame.crs, to, @)]]]

\* (faulty variant) the frame itself is reprojected and returned
to_crs_InPlace(frame, to) ==
    [self |-> Reprojected(frame, to), result |-> Reprojected(frame, to)]

\* GeoDataFrame.to_crs(crs), inplace=False: a reprojected copy is returned;
\* `self` is the frame after the call, `result` what the call returns
to_crs(frame, to) == [self |-> frame, result |-> Reprojected(frame, to)]

\* gdf_epsg_4326 = gdf.to_crs("EPSG:4326"): ValueError for a frame without CRS
ToCrsCell ==
    /\ pc = "to_crs"
    /\ Needs(pc) \subseteq defined
    /\ IF gdf.crs = NoCRS
       THEN /\ UNCHANGED <<gdf, gdf_epsg_4326, defined>>
            /\ Raise("to_crs", "ValueError")
       ELSE /\ gdf' = to_crs(gdf, "EPSG:4326").self
            /\ gdf_epsg_4326' = to_crs(gdf, "EPSG:4326").result
            /\ defined' = defined \cup {"gdf_epsg_4326"}
            /\ Finish("to_crs")
    /\ UNCHANGED <<notebook, calls, pyVars,
                   files, opened, pathVars, ioVars, luVars>>

\* A sub plot nothing was drawn on yet.
EmptyAxes == [plotted |-> <<>>, title |-> "", aspect |-> "auto"]

\* figure, (axis1, axis2) = matplotlib.pyplot.subplots(nrows=1, ncols=2)
\* gdf.plot(ax=axis1); axis1.set_title(...); axis1.set_aspect(1)
\* gdf_epsg_4326.plot(ax=axis2); axis2.set_title("WGS84"); axis2.set_aspect(1)
PlotCell ==
    /\ pc = "plot"
    /\ Needs(pc) \subseteq defined
    /\ axis1' = [plotted |-> Append(EmptyAxes.plotted, gdf),
                 title |-> " ETRS89-extended / LAEA Europe",
                 aspect |-> "1"]
    /\ axis2' = [plotted |-> Append(EmptyAxes.plotted, gdf_epsg_4326),
                 title |-> "WGS84",
                 aspect |-> "1"]
    /\ defined' = defined \cup {"figure", "axis1", "axis2"}
    /\ Finish("plot")
    /\ UNCHANGED <<notebook, calls, stdout, iterrows, crs, files, opened,
                   pathVars, ioVars, luVars, crsVars>>

(***************************************************************************)
(* pyproj.  A CRS object is [srs, name, params, bounds]: the text it was   *)
(* made from, its name, its projection parameters (the proj4 string) and   *)
(* the bounds of its area of use in hundredths of a degree (<<>> when the  *)
(* CRS has no area of use).                                                *)
(***************************************************************************)
\* The EPSG data set pyproj ships: code |-> definition.
EpsgRegistry ==
    [code \in {"3006", "3035", "4326"} |->
        CASE code = "3006" ->
                [name |-> "SWEREF99 TM",
                 params |-> "+proj=utm +zone=33 +ellps=GRS80 +units=m",
                 bounds |-> <<1003, 5496, 2417, 6907>>]
          [] code = "3035" ->
                [name |-> "ETRS89-extended / LAEA Europe",
                 params |-> "+proj=laea +lat_0=52 +lon_0=10 +x_0=4321000 +y_0=3210000 +ellps=GRS80 +units=m",
                 bounds |-> <<-3558, 2460, 4483, 8473>>]
          [] code = "4326" ->
                [name |-> "WGS 84",
                 params |-> "+proj=longlat +datum=WGS84",
                 bounds |-> <<-18000, -9000, 18000, 9000>>]]

\* "EPSG:<code>"
EpsgString(code) == "EPSG:" \o code

\* A WKT text of the LAEA Europe projection that names no authority code, as
\* a .prj file can hold it, and a proj4 text of a projection of one's own.
EsriLaeaWkt == "PROJCS[\"ETRS_1989_LAEA\"]"
CustomProj4 == "+proj=laea +lat_0=0 +lon_0=0 +ellps=sphere"

\* The texts a CRS can be made from.
CrsTexts == {EpsgString(code) : code \in DOMAIN EpsgRegistry}
               \cup {EsriLaeaWkt, CustomProj4}

\* pyproj.CRS(projparams) for a text (for a CRS object: for its srs): an
\* "EPSG:<code>" text is looked up in the EPSG data set, any other text is
\* parsed into the parameters it spells out.
pyproj_CRS(projparams) ==
    IF \E code \in DOMAIN EpsgRegistry : projparams = EpsgString(code)
    THEN LET code == CHOOSE c \in DOMAIN EpsgRegistry : projparams = EpsgString(c)
         IN  [srs |-> projparams,
              name |-> EpsgRegistry[code].name,
              params |-> EpsgRegistry[code].params,
              bounds |-> EpsgRegistry[code].bounds]
    ELSE IF projparams = EsriLaeaWkt
    THEN [srs |-> projparams,
          name |-> "ETRS_1989_LAEA",
          params |-> "+proj=laea +lat_0=52 +lon_0=10 +x_0=4321000 +y_0=3210000 +ellps=GRS80 +units=m",
          bounds |-> <<>>]
    ELSE [srs |-> projparams, name |-> "unknown", params |-> projparams,
          bounds |-> <<>>]

\* The name crs before a cell binds it.
NoCrsObject == [srs |-> NoCRS, name |-> "", params |-> "", bounds |-> <<>>]

\* The EPSG codes whose definition is the projection of the CRS object.
MatchingCodes(c) ==
    {code \in DOMAIN EpsgRegistry : EpsgRegistry[code].params = c.params}

\* (faulty variant) the code is read off the text the CRS was made from
to_epsg_FromText(c) ==
    IF \E code \in DOMAIN EpsgRegistry : c.srs = EpsgString(code)
    THEN CHOOSE code \in DOMAIN EpsgRegistry : c.srs = EpsgString(code)
    ELSE "None"

\* CRS.to_epsg(): the code of the best-matching EPSG definition, None when
\* there is none
to_epsg(c) ==
    IF MatchingCodes(c) = {} THEN "None"
    ELSE CHOOSE code \in MatchingCodes(c) : TRUE

\* CRS.to_proj4() and CRS.to_wkt()
to_proj4(c) == c.params
to_wkt(c) == "PROJCRS[\"" \o c.name \o "\"]"

\* crs = pyproj.CRS(gdf.crs), then three print calls; pyproj.CRS raises
\* CRSError for a data set without CRS (gdf.crs is None)
PyprojCell ==
    /\ pc = "pyproj"
    /\ Needs(pc) \subseteq defined
    /\ IF gdf.crs = NoCRS
       THEN /\ UNCHANGED <<crs, defined, stdout>>
            /\ Raise("pyproj", "CRSError")
       ELSE /\ crs' = pyproj_CRS(gdf.crs)
            /\ defined' = defined \cup {"crs"}
            /\ stdout' = Printed(stdout, "pyproj",
                  <<"CRS as a proj4 string: " \o to_proj4(crs'),
                    "CRS in WKT format: " \o to_wkt(crs'),
                    "EPSG code of the CRS: " \o to_epsg(crs')>>)
            /\ Finish("pyproj")
    /\ UNCHANGED <<notebook, calls, iterrows, axis1, axis2, files, opened,
                   pathVars, ioVars, luVars, crsVars>>

\* crs = pyproj.CRS("EPSG:4326")
ManualCrsCell ==
    /\ pc = "manual_crs"
    /\ crs' = pyproj_CRS("EPSG:4326")
    /\ defined' = defined \cup {"crs"}
    /\ Finish("manual_crs")
    /\ UNCHANGED <<notebook, calls, stdout, iterrows, axis1, axis2, files,
                   opened, pathVars, ioVars, luVars, crsVars>>

\* crs.name: the cell shows the value
CrsNameCell ==
    /\ pc = "crs_name"
    /\ Needs(pc) \subseteq defined
    /\ stdout' = Printed(stdout, "crs_name", <<crs.name>>)
    /\ Finish("crs_name")
    /\ UNCHANGED <<notebook, calls, defined, iterrows, crs, axis1, axis2,
                   files, opened, pathVars, ioVars, luVars, crsVars>>

\* crs.area_of_use.bounds: the cell shows the value; area_of_use is None for
\* a CRS without one, and the attribute access raises
CrsBoundsCell ==
    /\ pc = "crs_bounds"
    /\ Needs(pc) \subseteq defined
    /\ IF crs.bounds = <<>>
       THEN /\ UNCHANGED stdout
            /\ Raise("crs_bounds", "AttributeError")
       ELSE /\ stdout' = Printed(stdout, "crs_bounds", <<crs.bounds>>)
            /\ Finish("crs_bounds")
    /\ UNCHANGED <<notebook, calls, defined, iterrows, crs, axis1, axis2,
                   files, opened, pathVars, ioVars, luVars, crsVars>>

(***************************************************************************)
(* The WFS cell of the "io" notebook, statement by statement.              *)
(***************************************************************************)
\* (faulty variant) the frame is exported before its coordinates are swapped
WfsOrder_ExportFirst ==
    <<"WebFeatureService", "getfeature", "open", "write", "close",
      "read_file", "set_crs", "to_file", "swap">>

\* The statements of the cell in the order they are written.
WfsOrder == <<"WebFeatureService", "getfeature", "open", "write", "close",
              "read_file", "set_crs", "swap", "to_file">>

\* shapely: Point(x, y) and Point(x, y, z), geom.has_z, geom.x, geom.y, geom.z
Point2(a, b) == <<a, b>>
Point3(a, b, c) == <<a, b, c>>
has_z(geom) == Len(geom) = 3
X(geom) == geom[1]
Y(geom) == geom[2]
Z(geom) == geom[3]

\* (faulty variant) the swap forgets the third coordinate
SwapXY_DropZ(geom) == Point2(Y(geom), X(geom))

\* lambda geom: Point(geom.y, geom.x, geom.z) if geom.has_z else Point(geom.y, geom.x)
SwapXY(geom) ==
    IF has_z(geom) THEN Point3(Y(geom), X(geom), Z(geom))
    ELSE Point2(Y(geom), X(geom))

\* The cell is at statement s.
WfsAt(s) ==
    /\ pc = "wfs"
    /\ stmt \in 1..Len(WfsOrder)
    /\ WfsOrder[stmt] = s

\* Statement s completed: on to the next one, or on to the next cell.
WfsDone(s) ==
    /\ wfs_log' = Append(wfs_log, s)
    /\ Attempt("wfs", s)
    /\ errors' = errors
    /\ IF stmt = Len(WfsOrder)
       THEN pc' = NextCell(notebook, "wfs") /\ stmt' = 1
       ELSE pc' = pc /\ stmt' = stmt + 1

\* wfs = WebFeatureService(url, version="1.1.0")
WfsService ==
    /\ WfsAt("WebFeatureService")
    /\ WfsDone("WebFeatureService")
    /\ defined' = defined \cup {"wfs"}
    /\ UNCHANGED <<notebook, pyVars,
                   files, opened, pathVars, response, gml, data,
                   luVars, crsVars>>

\* response = wfs.getfeature(typename=layer_name, outputFormat="GML2")
WfsGetFeature ==
    /\ WfsAt("getfeature")
    /\ WfsDone("getfeature")
    /\ response' \in Layers
    /\ defined' = defined \cup {"response"}
    /\ UNCHANGED <<notebook, pyVars,
                   files, opened, pathVars, gml, data, luVars,
                   crsVars>>

\* with open("cykelpump_punkt.gml", "wb") as f: the file is created empty
WfsOpen ==
    /\ WfsAt("open")
    /\ WfsDone("open")
    /\ gml' = [exists |-> TRUE, open |-> TRUE,
               content |-> [srs |-> NoCRS, features |-> <<>>]]
    /\ UNCHANGED <<notebook, pyVars,
                   defined, files, opened, pathVars, response, data,
                   luVars, crsVars>>

\* f.write(response.read())
WfsWrite ==
    /\ WfsAt("write")
    /\ WfsDone("write")
    /\ gml' = [gml EXCEPT !.content = response]
    /\ UNCHANGED <<notebook, pyVars,
                   defined, files, opened, pathVars, response, data,
                   luVars, crsVars>>

\* the end of the with block closes f
WfsClose ==
    /\ WfsAt("close")
    /\ WfsDone("close")
    /\ gml' = [gml EXCEPT !.open = FALSE]
    /\ UNCHANGED <<notebook, pyVars,
                   defined, files, opened, pathVars, response, data,
                   luVars, crsVars>>

\* data = gpd.read_file("cykelpump_punkt.gml"): what the file holds right now
WfsReadFile ==
    /\ WfsAt("read_file")
    /\ gml.exists
    /\ WfsDone("read_file")
    /\ data' = read_file(gml.content)
    /\ defined' = defined \cup {"data"}
    /\ UNCHANGED <<notebook, pyVars,
                   files, opened, pathVars, response, gml, luVars,
                   crsVars>>

\* data = data.set_crs("EPSG:3011"): refused when the frame has another CRS
WfsSetCrs ==
    /\ WfsAt("set_crs")
    /\ data.crs \in {NoCRS, "EPSG:3011"}
    /\ WfsDone("set_crs")
    /\ data' = [data EXCEPT !.crs = "EPSG:3011"]
    /\ UNCHANGED <<notebook, pyVars,
                   defined, files, opened, pathVars, response, gml,
                   luVars, crsVars>>

\* data["geometry"] = data["geometry"].apply(lambda geom: ...)
WfsSwap ==
    /\ WfsAt("swap")
    /\ WfsDone("swap")
    /\ data' = [data EXCEPT !.rows =
                  [i \in DOMAIN @ |-> [@[i] EXCEPT !.geometry = SwapXY(@)]]]
    /\ UNCHANGED <<notebook, pyVars,
                   defined, files, opened, pathVars, response, gml,
                   luVars, crsVars>>

\* output_path = DATA_DIRECTORY / "cykelpump_punkt.gpkg"
\* data.to_file(output_path, driver='GPKG')
WfsToFile ==
    /\ WfsAt("to_file")
    /\ WfsDone("to_file")
    /\ files' = Store(files, Join(DATA_DIRECTORY, "cykelpump_punkt.gpkg").parts,
                      WrittenFile(data, "GPKG"))
    /\ UNCHANGED <<notebook, pyVars,
                   defined, opened, pathVars, response, gml, data,
                   luVars, crsVars>>

\* The exception a statement of the cell can raise, "" when it cannot: the
\* service can be out of reach, the disk can refuse, and set_crs refuses a
\* frame whose CRS is another one.
WfsException(s) ==
    CASE s \in {"WebFeatureService", "getfeature"} -> "ConnectionError"
      [] s \in {"open", "write", "to_file"} -> "OSError"
      [] s = "read_file" -> "DriverError"
      [] s = "set_crs" /\ data.crs \notin {NoCRS, "EPSG:3011"} -> "ValueError"
      [] OTHER -> ""

\* A statement of the cell raises: the with block closes the file if it is
\* open, and the statements after it do not run.
WfsRaise ==
    /\ pc = "wfs"
    /\ stmt \in 1..Len(WfsOrder)
    /\ WfsException(WfsOrder[stmt]) # ""
    /\ Attempt("wfs", WfsOrder[stmt])
    /\ Raise("wfs", WfsException(WfsOrder[stmt]))
    /\ gml' = IF gml.open THEN [gml EXCEPT !.open = FALSE] ELSE gml
    /\ UNCHANGED <<notebook, pyVars,
                   defined, files, opened, pathVars, response, data,
                   wfs_log, luVars, crsVars>>

EmptyLayer == [srs |-> NoCRS, features |-> <<>>]
EmptyFrame == read_file(EmptyLayer)

\* A fresh kernel: no cell has run, no name is bound.
InitCommon ==
    /\ pc = Cells(notebook)[1]
    /\ stmt = 1
    /\ defined = {}
    /\ errors = {}
    /\ files = <<>>
    /\ opened = <<>>
    /\ NOTEBOOK_PATH = Path0
    /\ DATA_DIRECTORY = Path0
    /\ FILE_DIR = <<>>
    /\ gdf = EmptyFrame
    /\ response = EmptyLayer
    /\ gml = [exists |-> FALSE, open |-> FALSE, content |-> EmptyLayer]
    /\ data = EmptyFrame
    /\ wfs_log = <<>>
    /\ data_set = EmptyFrame
    /\ water_bodies = EmptyFrame
    /\ grouped_data = groupby(EmptyFrame, "")
    /\ groups = <<>>
    /\ loop_keys = <<>>
    /\ area_information = <<>>
    /\ gdf_epsg_4326 = EmptyFrame
    /\ calls = <<>>
    /\ stdout = <<>>
    /\ iterrows = <<>>
    /\ crs = NoCrsObject
    /\ axis1 = EmptyAxes
    /\ axis2 = EmptyAxes

InitIo ==
    /\ notebook = "io"
    /\ cwd = NbDir
    /\ notebook_dir = NbDir

\* The kernel of the "paths" notebook can be started in any directory.
InitPaths ==
    /\ notebook = "paths"
    /\ cwd \in Directories
    /\ notebook_dir \in Directories

\* The kernel of the "landuse" notebook is started next to the notebook.
InitLandUse ==
    /\ notebook = "landuse"
    /\ cwd = NbDir
    /\ notebook_dir = NbDir

\* The kernel of the "crs" notebook is started next to the notebook.
InitCrs ==
    /\ notebook = "crs"
    /\ cwd = NbDir
    /\ notebook_dir = NbDir

Init == (InitIo \/ InitPaths \/ InitLandUse \/ InitCrs) /\ InitCommon

Next ==
    \/ NameErrorCell
    \/ DataDirectoryCell
    \/ ReadNuts
    \/ WriteGpkg1
    \/ RenameFid
    \/ WriteGpkg2
    \/ WriteGpkg3
    \/ WriteGeoJson
    \/ ReadUgaFirst
    \/ AlternativeCell
    \/ ReadUgaAgain
    \/ ReadLandUse
    \/ SelectColumnsCell
    \/ RenameColumnsCell
    \/ IterGeometryStart
    \/ IterGeometryBody
    \/ IterGeometryEnd
    \/ IterAreaStart
    \/ IterAreaBody
    \/ IterAreaEnd
    \/ AreaColumnCell
    \/ FilterWaterCell
    \/ WriteWaterCell
    \/ GroupByCell
    \/ GroupsCell
    \/ GetGroupCell
    \/ FanOutStart
    \/ FanOutWrite
    \/ FanOutEnd
    \/ AreaInformationCell
    \/ ToCsvCell
    \/ ToCrsCell
    \/ PlotCell
    \/ PyprojCell
    \/ ManualCrsCell
    \/ CrsNameCell
    \/ CrsBoundsCell
    \/ WfsService
    \/ WfsGetFeature
    \/ WfsOpen
    \/ WfsWrite
    \/ WfsClose
    \/ WfsReadFile
    \/ WfsSetCrs
    \/ WfsSwap
    \/ WfsToFile
    \/ WfsRaise

Spec == Init /\ [][Next]_vars

(***************************************************************************)
(* The "crs" notebook run on a data set of any CRS: the file behind the    *)
(* url holds one of the CRS texts, or none.                                *)
(***************************************************************************)
AnyCrsLayers == {[srs |-> c, features |-> f] :
                    c \in CrsTexts \cup {NoCRS},
                    f \in SeqUpTo(NutsRows, MaxRegions)}

\* gdf = geopandas.read_file(url)
ReadAnyCrs ==
    /\ pc = "read_nuts"
    /\ Attempt("read_nuts", "read_file")
    /\ \E layer \in AnyCrsLayers : gdf' = read_file(layer)
    /\ defined' = defined \cup {"gdf"}
    /\ Finish("read_nuts")
    /\ UNCHANGED <<notebook, pyVars, files, opened, pathVars, ioVars, luVars,
                   gdf_epsg_4326>>

InitConversion == InitCrs /\ InitCommon

NextConversion ==
    \/ NameErrorCell
    \/ ReadAnyCrs
    \/ ToCrsCell
    \/ PlotCell
    \/ PyprojCell
    \/ ManualCrsCell
    \/ CrsNameCell
    \/ CrsBoundsCell

SpecConversion == InitConversion /\ [][NextConversion]_vars

(***************************************************************************)
(* Properties.                                                             *)
(***************************************************************************)
Range(s) == {s[i] : i \in DOMAIN s}

\* s without the elements outside S
Restrict(s, S) == SelectSeq(s, LAMBDA x : x \in S)

IsPrefix(s, t) == Len(s) <= Len(t) /\ s = SubSeq(t, 1, Len(s))

\* h is the point g with x and y exchanged: z kept when g has one, 2D when not
Exchanged(g, h) ==
    /\ Len(h) = Len(g)
    /\ h[1] = g[2]
    /\ h[2] = g[1]
    /\ Len(g) = 3 => h[3] = g[3]

\* rows `after` are rows `before` with every point exchanged and the number
\* of rows, their order and the other columns as they were
RowsSwapped(before, after) ==
    /\ Len(after) = Len(before)
    /\ \A i \in DOMAIN before :
          /\ DOMAIN after[i] = DOMAIN before[i]
          /\ after[i].name = before[i].name
          /\ Exchanged(before[i].geometry, after[i].geometry)

AxesSwapped(before, after) ==
    /\ after.index = before.index
    /\ RowsSwapped(before.rows, after.rows)

\* C3: the axis-swap step of the WFS cell replaces every point (x, y[, z]) of
\* the loaded data by (y, x[, z]); the number of rows, their order and the
\* columns other than the geometry are unchanged.
C3_AxisSwap == [][WfsAt("swap") => AxesSwapped(data, data')]_vars

\* C3: the step has run on data that holds a 2D and a 3D point.
C3_Witness ==
    /\ "swap" \in Range(wfs_log)
    /\ \E i, j \in DOMAIN data.rows :
          /\ Len(data.rows[i].geometry) = 2
          /\ Len(data.rows[j].geometry) = 3
          /\ data.rows[i].name # data.rows[j].name

\* The steps the WFS cell is said to run, in the order it is said to run them.
WfsSteps == <<"getfeature", "write", "close", "read_file", "set_crs", "swap",
              "to_file">>

GpkgPath == Append(DATA_DIRECTORY.parts, "cykelpump_punkt.gpkg")

\* C4: the WFS cell runs fetch -> write .gml -> load -> set CRS -> swap ->
\* export in this order; the .gml file is completely written and closed
\* before it is read, and the GeoPackage holds corrected coordinates only.
C4_FixedOrder ==
    /\ IsPrefix(Restrict(wfs_log, Range(WfsSteps)), WfsSteps)
    /\ "read_file" \in Range(wfs_log) =>
          /\ gml.exists
          /\ ~gml.open
          /\ gml.content = response
    /\ GpkgPath \in DOMAIN files =>
          /\ files[GpkgPath].crs = "EPSG:3011"
          /\ RowsSwapped(response.features, files[GpkgPath].rows)

\* C4: the cell ran to its end and exported a frame with rows in it.
C4_Witness ==
    /\ pc = "done"
    /\ GpkgPath \in DOMAIN files
    /\ files[GpkgPath].rows # <<>>

\* C9: NOTEBOOK_PATH is the directory that contains the notebook and
\* DATA_DIRECTORY is the data folder next to the notebook, for every working
\* directory the kernel runs in.
C9_NotebookDirectory ==
    "NOTEBOOK_PATH" \in defined =>
        /\ NOTEBOOK_PATH = PathOf(notebook_dir)
        /\ DATA_DIRECTORY = PathOf(Append(notebook_dir, "data"))

\* C10: the alternative way yields the DATA_DIRECTORY of the pathlib way, for
\* every working directory, so the read that follows opens the same file.
C10_SameDataDirectory ==
    /\ "FILE_DIR" \in defined =>
          /\ Len(opened) >= 1
          /\ Append(DATA_DIRECTORY.parts, UgaName) = opened[1]
    /\ Len(opened) = 2 => opened[2] = opened[1]

\* C10: both variants ran, in a working directory that is not the notebook's,
\* and both reads were attempted.
C10_Witness ==
    /\ notebook = "paths"
    /\ pc = "done"
    /\ Len(opened) = 2
    /\ cwd # notebook_dir
    /\ cwd # <<>>

(***************************************************************************)
(* Properties of the "landuse" notebook.                                   *)
(***************************************************************************)
\* The values the column CLASS_NAME takes in data_set, None (Null) included.
ClassNames == {data_set.rows[i].CLASS_NAME : i \in DOMAIN data_set.rows}

\* The terrain classes: the values that are not missing.
TerrainClasses == ClassNames \ {Null}

\* The rows of data_set whose CLASS_NAME is k, in the order of data_set.
ClassRows(k) == SelectSeq(data_set.rows, LAMBDA r : r.CLASS_NAME = k)

\* The labels of the rows of data_set whose CLASS_NAME is k.
ClassLabels(k) ==
    {data_set.index[i] : i \in {j \in DOMAIN data_set.rows :
                                   data_set.rows[j].CLASS_NAME = k}}

LuPath(k) == Append(DATA_DIRECTORY.parts, "LU_" \o k \o ".shp")

\* The files of the session that the fan-out loop is not the writer of.
OtherFiles == {Append(DATA_DIRECTORY.parts, "water_bodies.shp"),
               cwd \o <<"data", "area_by_LU_class.csv">>}

RECURSIVE SumOfAreas(_)
SumOfAreas(S) ==
    IF S = {} THEN 0
    ELSE LET i == CHOOSE j \in S : TRUE
         IN  data_set.rows[i].geometry.w * data_set.rows[i].geometry.h
                + SumOfAreas(S \ {i})

\* C2: area_information has exactly one entry per terrain class, the entry of
\* class k is the sum of the areas of the rows whose CLASS_NAME is k, and the
\* aggregation leaves data_set unchanged.
C2_AreaPerClass ==
    [][pc = "area_information" =>
          /\ data_set' = data_set
          /\ DOMAIN area_information' = TerrainClasses
          /\ \A k \in TerrainClasses :
                area_information'[k] =
                    SumOfAreas({i \in DOMAIN data_set.rows :
                                   data_set.rows[i].CLASS_NAME = k})]_vars

\* C2: two classes were aggregated, one of them over rows of different areas.
C2_Witness ==
    /\ notebook = "landuse"
    /\ Succeeded("area_information")
    /\ Cardinality(DOMAIN area_information) = 2
    /\ \E k \in DOMAIN area_information : area_information[k] = 3

C7_GetGroupKeepsIndex ==
    (notebook = "landuse" /\ Succeeded("get_group")) =>
        \A j \in DOMAIN water_bodies.rows :
            /\ \E i \in DOMAIN data_set.rows :
                  /\ data_set.index[i] = water_bodies.index[j]
                  /\ data_set.rows[i] = water_bodies.rows[j]
            /\ Cardinality({i \in DOMAIN data_set.rows :
                               data_set.index[i] = water_bodies.index[j]}) = 1

\* C7: the group returned holds rows that are not the first rows of data_set.
C7_Witness ==
    /\ notebook = "landuse"
    /\ Succeeded("get_group")
    /\ Len(water_bodies.rows) = 2
    /\ water_bodies.index[1] = 1
    /\ water_bodies.rows[1] # water_bodies.rows[2]

(***************************************************************************)
(* Properties of the "crs" notebook.                                       *)
(***************************************************************************)
\* C8: gdf.to_crs("EPSG:4326") returns a data set in EPSG:4326 with the rows,
\* the index and the attribute values of gdf, and leaves gdf as it was: its
\* CRS is still EPSG:3035 and its geometries are untouched.
C8_ToCrsReturnsCopy ==
    [][(pc = "to_crs" /\ "gdf" \in defined) =>
          /\ gdf' = gdf
          /\ gdf'.crs = "EPSG:3035"
          /\ gdf_epsg_4326'.crs = "EPSG:4326"
          /\ gdf_epsg_4326'.index = gdf.index
          /\ Len(gdf_epsg_4326'.rows) = Len(gdf.rows)
          /\ \A i \in DOMAIN gdf.rows :
                /\ DOMAIN gdf_epsg_4326'.rows[i] = DOMAIN gdf.rows[i]
                /\ \A c \in DOMAIN gdf.rows[i] \ {"geometry"} :
                      gdf_epsg_4326'.rows[i][c] = gdf.rows[i][c]]_vars

\* C8: a data set of two regions was reprojected.
C8_Witness ==
    /\ notebook = "crs"
    /\ Succeeded("to_crs")
    /\ Len(gdf.rows) = 2
    /\ gdf_epsg_4326.rows # gdf.rows

(***************************************************************************)
(* Properties of the cells that raise.                                     *)
(***************************************************************************)
NoDuplicates(s) == \A i, j \in DOMAIN s : s[i] = s[j] => i = j

\* The statements of cell c attempted so far, in order.
CallsOf(log, c) ==
    LET mine == SelectSeq(log, LAMBDA a : a[1] = c)
    IN  [i \in DOMAIN mine |-> mine[i][2]]

\* C11: an error stops the cell at the failing statement: the step that
\* raises binds no name and writes no file, the statements after it never
\* run, the error is never taken back, and no library call is attempted a
\* second time; a cell that ran to its end attempted each call once.
C11_NoFailureHandling ==
    [][/\ errors \subseteq errors'
       /\ errors' # errors =>
             /\ pc' = NextCell(notebook, pc)
             /\ Cardinality(errors') = Cardinality(errors) + 1
             /\ UNCHANGED <<defined, files, wfs_log, response, data, gdf,
                            data_set, water_bodies, loop_keys, stdout>>
       /\ \A e \in errors :
             /\ pc' # e[1]
             /\ CallsOf(calls', e[1]) = CallsOf(calls, e[1])
       /\ NoDuplicates(calls')
       /\ IsPrefix(CallsOf(calls', "wfs"), WfsOrder)
       /\ (notebook = "io" /\ pc' = "done" /\ \A e \in errors' : e[1] # "wfs") =>
             CallsOf(calls', "wfs") = WfsOrder
       /\ \A c \in {"write_gpkg_1", "write_gpkg_2", "write_gpkg_3"} :
             (notebook = "io" /\ pc = c /\ pc' # c /\ "gdf" \in defined) =>
                 CallsOf(calls', c) = <<"to_file">>]_vars

\* C11: the first to_file raised and the next cell ran all the same; the WFS
\* cell raised at set_crs, after six statements, and exported nothing.
C11_Witness ==
    /\ notebook = "io"
    /\ pc = "done"
    /\ <<"write_gpkg_1", "DriverError">> \in errors
    /\ Succeeded("rename_fid")
    /\ <<"wfs", "ValueError">> \in errors
    /\ Len(wfs_log) = 6
    /\ CallsOf(calls, "wfs") = SubSeq(WfsOrder, 1, 7)
    /\ GpkgPath \notin DOMAIN files

(***************************************************************************)
(* Properties of the pyproj cells.                                         *)
(***************************************************************************)
\* C12: for a data set with a CRS, the conversion cell raises no error and
\* prints three lines; the code printed is the EPSG code the CRS was made
\* from (3035 for the NUTS data set), the code of the EPSG definition with
\* the same projection when the CRS names none, and None when no EPSG
\* definition matches.
C12_ToEpsg ==
    [][(pc = "pyproj" /\ "gdf" \in defined /\ gdf.crs # NoCRS) =>
          /\ errors' = errors
          /\ pc' = "manual_crs"
          /\ crs'.srs = gdf.crs
          /\ Len(stdout'["pyproj"]) = 3
          /\ \A code \in DOMAIN EpsgRegistry :
                gdf.crs = EpsgString(code) =>
                    stdout'["pyproj"][3] = "EPSG code of the CRS: " \o code
          /\ \A code \in DOMAIN EpsgRegistry :
                EpsgRegistry[code].params = crs'.params =>
                    stdout'["pyproj"][3] = "EPSG code of the CRS: " \o code
          /\ (\A code \in DOMAIN EpsgRegistry :
                EpsgRegistry[code].params # crs'.params) =>
                    stdout'["pyproj"][3] = "EPSG code of the CRS: None"]_vars

\* C12: the cell ran on a data set of two regions whose CRS matches no EPSG
\* definition, and printed None.
C12_Witness ==
    /\ Succeeded("pyproj")
    /\ pc = "manual_crs"
    /\ Len(gdf.rows) = 2
    /\ gdf.crs = CustomProj4
    /\ Len(stdout["pyproj"]) = 3
    /\ stdout["pyproj"][3] = "EPSG code of the CRS: None"

\* C13: the CRS object made by hand is the CRS object of EPSG:3035, the CRS
\* of gdf: the name and the bounds shown afterwards are those of gdf.crs.
C13_ManualCrsIs3035 ==
    (notebook = "crs" /\ Succeeded("manual_crs") /\ "gdf" \in defined) =>
        /\ crs = pyproj_CRS("EPSG:3035")
        /\ crs.name = pyproj_CRS(gdf.crs).name
        /\ crs.bounds = pyproj_CRS(gdf.crs).bounds
        /\ Succeeded("crs_name") =>
              stdout["crs_name"] = <<pyproj_CRS(gdf.crs).name>>
        /\ Succeeded("crs_bounds") =>
              stdout["crs_bounds"] = <<pyproj_CRS(gdf.crs).bounds>>

\* C14: the data set drawn on axis1 is the original one and is in EPSG:4326,
\* the data set drawn on axis2 is the reprojected one and is in EPSG:3035.
C14_PlotComments ==
    (notebook = "crs" /\ Succeeded("plot")) =>
        /\ axis1.plotted = <<gdf>>
        /\ axis1.plotted[1].crs = "EPSG:4326"
        /\ axis2.plotted = <<gdf_epsg_4326>>
        /\ axis2.plotted[1].crs = "EPSG:3035"

(***************************************************************************)
(* Properties of the row loops.                                            *)
(***************************************************************************)
\* The lines a loop over data_set[:5] is to print: one for each of the first
\* min(5, n) rows, in index order, with the area of the polygon of the row.
AreaLines ==
    [j \in 1..(IF Len(data_set.rows) < 5 THEN Len(data_set.rows) ELSE 5) |->
        AreaLine(j - 1,
                 data_set.rows[j].geometry.w * data_set.rows[j].geometry.h)]

\* What cell c has printed so far.
Output(c) == IF c \in DOMAIN stdout THEN stdout[c] ELSE <<>>

\* C15: both row loops visit the first min(5, n) rows in index order, each
\* once, and stop; the area the second takes from data_set.area[i] is the
\* area the first takes from row["geometry"].area, so both print the same
\* lines, and neither raises.
C15_LoopsEquivalent ==
    (notebook = "landuse" /\ Past("rename_columns")) =>
        /\ IsPrefix(Output("iterrows_geometry"), AreaLines)
        /\ IsPrefix(Output("iterrows_area"), AreaLines)
        /\ Past("iterrows_geometry") => Output("iterrows_geometry") = AreaLines
        /\ Past("iterrows_area") =>
              /\ Output("iterrows_area") = AreaLines
              /\ Output("iterrows_area") = Output("iterrows_geometry")
        /\ \A e \in errors : e[1] \notin {"iterrows_geometry", "iterrows_area"}

\* C15: both loops ran over a data set of six rows, whose first rows differ
\* in area, and printed five lines each.
C15_Witness ==
    /\ notebook = "landuse"
    /\ Past("iterrows_area")
    /\ Len(data_set.rows) = 6
    /\ data_set.rows[1].geometry # data_set.rows[2].geometry
    /\ data_set.rows[2].geometry # data_set.rows[5].geometry
    /\ Len(Output("iterrows_geometry")) = 5
    /\ Len(Output("iterrows_area")) = 5

====
